---- MODULE Spec2Model ----
(***************************************************************************)
(* Model of src/coletaIPEAv2.py: the bronze/silver/gold pipeline that      *)
(* fetches five municipal indicator sources (bronze_fetch), normalizes     *)
(* each (silver_transform), accumulates the normalized tables in join_list *)
(* (data_process, main) and merges them into CleanData.csv (gold_finish).  *)
(*                                                                         *)
(* A cell of a table is a triple <<tag, n, d>>:                            *)
(*   <<"num", n, d>>   the number n/d (d > 0)                              *)
(*   <<"nan", 0, 1>>   pandas' missing value NaN                           *)
(*   <<"inf", 0, 1>>   the float +inf (a positive number divided by 0)     *)
(*   <<"key", k, 1>>   the municipality code k                             *)
(*   <<"datetime", n, 1>>  a timestamp, n days after 1970-01-01            *)
(*   <<text, 0, 1>>    a string or a float of another column, by its text  *)
(* A table (DataFrame) is a record [cols, keydtype, rows]: the set of      *)
(* column names, the dtype of its key column ("str" or "int") and the      *)
(* sequence of rows, each a function from cols to cells.                   *)
(* Column and file names are written without their diacritics.             *)
(***************************************************************************)
EXTENDS Integers, Sequences, FiniteSets, TLC

\* Municipality codes are 1..MaxKey.
MaxKey == 2
\* Most rows of a raw table fetched in a run of main.
FetchRows == 1
\* Most rows of a normalized table handed to gold_finish on its own.
MaxRows == 2
\* Most tables of a list handed to gold_finish on its own.
MaxTables == 3

VARIABLES
    pc,          \* main's position: "fetch", "transform", "merge", "done", "crashed"
    idx,         \* the source data_process is called for next (1..5; 6: all were)
    bronze_df,   \* data_process' local: the raw table just fetched, or None
    silver,      \* the normalized DataFrame objects, by source (None: there is none)
    join_list,   \* the module's list: references to the normalized tables, in order
    log,         \* what logging.error was called with: <<stage, filename>>
    gold,        \* Gold/CleanData.csv as saving_step wrote it (None: not written)
    analysis,    \* the steps of the descriptive analysis that ran
    files,       \* the <<folder, filename>> saving_step wrote
    gold_calls   \* how many times gold_finish was called

vars == <<pc, idx, bronze_df, silver, join_list, log, gold, analysis, files, gold_calls>>

----------------------------------------------------------------------------
\* Cells

NaN == <<"nan", 0, 1>>
Inf == <<"inf", 0, 1>>
Num(n, d) == <<"num", n, d>>
Text(s) == <<s, 0, 1>>
KeyCell(k) == <<"key", k, 1>>
Timestamp(days) == <<"datetime", days, 1>>

\* The absent table (Python's None).
None == [cols |-> {}, keydtype |-> "None", rows |-> <<>>]

Range(s) == {s[j] : j \in 1..Len(s)}

RECURSIVE Flatten(_)
Flatten(ss) == IF ss = <<>> THEN <<>> ELSE Head(ss) \o Flatten(Tail(ss))

RECURSIVE GCD(_, _)
GCD(a, b) == IF b = 0 THEN a ELSE GCD(b, a % b)

\* The number n/d in lowest terms.
Frac(n, d) == LET g == GCD(n, d) IN Num(n \div g, d \div g)

----------------------------------------------------------------------------
\* The configured sources (main, data_series and the IDHM call)

PIB == "PIB_2010.csv"
ARRECADACAO == "Arrecadacao_2010.csv"
POPULACAO == "Populacao_2010.csv"
MUNICIPIOS == "Municipios.csv"
IDHM == "IDHM_2010.csv"

data_series == <<PIB, ARRECADACAO, POPULACAO, MUNICIPIOS>>
Sources == data_series \o <<IDHM>>
NSources == Len(Sources)

CodMunIBGE == "CodMunIBGE"
Municipio == "Municipio"
Habitantes == "Habitantes 2010"
IDHM2010 == "IDHM 2010"
PIB2010 == "PIB 2010 (R$)"
Receitas == "Receitas Correntes 2010 (R$)"
Carga == "Carga Tributaria Municipal 2010"

column_order == <<CodMunIBGE, Municipio, Habitantes, IDHM2010, PIB2010, Receitas, Carga>>

----------------------------------------------------------------------------
\* What the external providers return (ipea.timeseries, ipea.territories,
\* the R bridge): the columns the code names, and rows of any level.

VALUE_PIB == "VALUE (R$ (mil), a precos do ano 2010)"
VALUE_ARRECADACAO == "VALUE (R$)"
VALUE_POPULACAO == "VALUE (Habitante)"

ValueCol(filename) ==
    CASE filename = PIB -> VALUE_PIB
      [] filename = ARRECADACAO -> VALUE_ARRECADACAO
      [] filename = POPULACAO -> VALUE_POPULACAO
      [] filename = MUNICIPIOS -> "NAME"
      [] OTHER -> "value"

KeyCol(filename) ==
    CASE filename = MUNICIPIOS -> "ID"
      [] filename = IDHM -> "tcode"
      [] OTHER -> "TERCODIGO"

LevelCol(filename) ==
    CASE filename = MUNICIPIOS -> "LEVEL"
      [] filename = IDHM -> "uname"
      [] OTHER -> "NIVNOME"

RawCols(filename) ==
    CASE filename = MUNICIPIOS -> {"LEVEL", "AREA", "CAPITAL", "NAME", "ID"}
      [] filename = IDHM -> {"code", "uname", "date", "tcode", "value"}
      [] OTHER -> {"CODE", "RAW DATE", "YEAR", "NIVNOME", "TERCODIGO", ValueCol(filename)}

\* Days from 1970-01-01 to 2010-01-01, the date of date_filter.
Days2010 == 14610
\* The day ten years before, another date of the HDI series.
Days2000 == Days2010 - 3653

\* The values a provider reports for municipality k.  GDP is reported in
\* thousands with four decimals (12.3456 is 123456/10000); municipality 2
\* has a GDP of zero.  Tax revenue may be missing.
RawValues(filename, k) ==
    CASE filename = PIB ->
            {IF k = 1 THEN Num(123456, 10000)
             ELSE IF k = 2 THEN Num(0, 1) ELSE Num(k * 10004, 10000)}
      [] filename = ARRECADACAO -> {Num(5 * k, 1), NaN}
      [] filename = POPULACAO -> {Num(7 * k, 2)}
      [] filename = MUNICIPIOS -> {<<"Town", k, 1>>}
      [] OTHER -> {Num(7, 10 * k)}

\* The levels of a provider's rows: the municipal one and another.
Levels(filename) ==
    CASE filename = MUNICIPIOS -> {"Municipios", "Estados"}
      [] filename = IDHM -> {"Municipality", "State"}
      [] OTHER -> {"Municipios", "Estados"}

MunicipalLevel(filename) == IF filename = IDHM THEN "Municipality" ELSE "Municipios"

\* The date column of the R bridge: float days, or strings.
DateCells(repr) ==
    IF repr = "float64" THEN {Num(Days2010, 1), Num(Days2000, 1)}
    ELSE {Text("2010-01-01"), Text("2000-01-01")}

RawRow(filename, cols, k, level, v, date) ==
    [c \in cols |->
        CASE c = KeyCol(filename) -> KeyCell(k)
          [] c = LevelCol(filename) -> Text(level)
          [] c = ValueCol(filename) -> v
          [] c = "date" -> date
          [] OTHER -> Text("meta")]

\* The key column's dtype: the Python providers give strings, the R bridge
\* numbers or strings.
KeyDtypes(filename) == IF filename = IDHM THEN {"int", "str"} ELSE {"str"}

\* A provider table lacks at most this column (a changed schema).
Optional(filename) ==
    CASE filename = MUNICIPIOS -> "CAPITAL"
      [] filename = IDHM -> "code"
      [] OTHER -> "YEAR"

SeqsUpTo(S, n) == UNION {[1..m -> S] : m \in 0..n}

\* The rows a provider may report, in the given levels and date columns.
ProviderRows(filename, cols, levels, repr) ==
    UNION {
        {RawRow(filename, cols, k, lv, v, d) :
            lv \in levels, v \in RawValues(filename, k), d \in DateCells(repr)}
        : k \in 1..MaxKey}

\* The tables of at most n rows, of the given levels, a provider returns.
ProviderTables(filename, n, levels, colsets, reprs) ==
    UNION {
        {[cols |-> cols, keydtype |-> kd, rows |-> rs] :
            rs \in SeqsUpTo(ProviderRows(filename, cols, levels, repr), n)}
        : cols \in colsets, kd \in KeyDtypes(filename), repr \in reprs}

Provider(filename) ==
    ProviderTables(filename, FetchRows, Levels(filename),
                   {RawCols(filename), RawCols(filename) \ {Optional(filename)}},
                   IF filename = IDHM THEN {"float64", "str"} ELSE {"str"})

----------------------------------------------------------------------------
\* bronze_fetch: the provider's table; for IDHM a float64 date column is
\* converted to timestamps (unit days, origin 1970-01-01).

IsFloatColumn(df, c) ==
    /\ c \in df.cols
    /\ df.rows # <<>>
    /\ \A j \in 1..Len(df.rows) : df.rows[j][c][1] = "num"

ToDatetime(df, c) ==
    [df EXCEPT !.rows =
        [j \in 1..Len(df.rows) |->
            [df.rows[j] EXCEPT ![c] = Timestamp(@[2] \div @[3])]]]

bronze_fetch(filename, data) ==
    IF filename = IDHM /\ IsFloatColumn(data, "date")
    THEN ToDatetime(data, "date")
    ELSE data

----------------------------------------------------------------------------
\* silver_transform

\* df.drop(columns=...): the listed columns must exist (else KeyError).
Drop(df, columns) ==
    [df EXCEPT !.cols = df.cols \ columns,
               !.rows = [j \in 1..Len(df.rows) |->
                            [c \in df.cols \ columns |-> df.rows[j][c]]]]

\* df.rename(columns=mapping): names absent from df are ignored.
NewName(mapping, c) == IF c \in DOMAIN mapping THEN mapping[c] ELSE c

Rename(df, mapping) ==
    LET newcols == {NewName(mapping, c) : c \in df.cols}
        old(c2) == CHOOSE c \in df.cols : NewName(mapping, c) = c2
    IN  [df EXCEPT !.cols = newcols,
                   !.rows = [j \in 1..Len(df.rows) |->
                                [c2 \in newcols |-> df.rows[j][old(c2)]]]]

\* The integer nearest to n/d, a tie going to the even one (numpy's round).
RoundHalfEven(n, d) ==
    LET q == n \div d
        r == n % d
    IN  IF 2 * r < d THEN q
        ELSE IF 2 * r > d THEN q + 1
        ELSE IF q % 2 = 0 THEN q ELSE q + 1

\* Round3Times1000 without the rounding: the value times 1000.
Times1000(cell) ==
    IF cell[1] = "num" THEN Frac(cell[2] * 1000, cell[3]) ELSE cell

\* .astype(float).round(3) * 1000 of one cell: the value rounded to three
\* decimals, in thousandths.
Round3Times1000(cell) ==
    IF cell[1] = "num" THEN Num(RoundHalfEven(cell[2] * 1000, cell[3]), 1) ELSE cell

\* int(x) of a float: its integer part.
IntCast(cell) == Num(cell[2] \div cell[3], 1)

\* Lines 93-94: the GDP column, cell by cell.
RoundPIB(df) ==
    [df EXCEPT !.rows = [j \in 1..Len(df.rows) |->
                            [df.rows[j] EXCEPT ![VALUE_PIB] = Round3Times1000(@)]]]

\* astype(int) of the population column, cell by cell.
IntCastColumn(df, c) ==
    [df EXCEPT !.rows = [j \in 1..Len(df.rows) |-> [df.rows[j] EXCEPT ![c] = IntCast(@)]]]

HasNaN(df, c) == \E j \in 1..Len(df.rows) : df.rows[j][c] = NaN

\* .astype({'Habitantes 2010': int, 'CodMunIBGE': str}, errors='ignore'):
\* each listed column is cast on its own, and a column that cannot be cast
\* (a NaN has no integer) is left as it is.
AstypePopulacao(df) ==
    LET typed == IF CodMunIBGE \in df.cols THEN [df EXCEPT !.keydtype = "str"] ELSE df
    IN  IF Habitantes \in df.cols /\ ~HasNaN(df, Habitantes)
        THEN IntCastColumn(typed, Habitantes)
        ELSE typed

IsDatetimeColumn(df, c) ==
    /\ df.rows # <<>>
    /\ \A j \in 1..Len(df.rows) : df.rows[j][c][1] = "datetime"

DroppedCols(filename) ==
    CASE filename = IDHM -> {"code", "uname", "date"}
      [] filename = MUNICIPIOS -> {"LEVEL", "AREA", "CAPITAL"}
      [] OTHER -> {"CODE", "RAW DATE", "YEAR", "NIVNOME"}

Renaming(filename) ==
    CASE filename = IDHM -> ("tcode" :> CodMunIBGE) @@ ("value" :> IDHM2010)
      [] filename = MUNICIPIOS -> ("NAME" :> Municipio) @@ ("ID" :> CodMunIBGE)
      [] filename = PIB -> ("TERCODIGO" :> CodMunIBGE) @@ (VALUE_PIB :> PIB2010)
      [] filename = ARRECADACAO -> ("TERCODIGO" :> CodMunIBGE) @@ (VALUE_ARRECADACAO :> Receitas)
      [] filename = POPULACAO -> ("TERCODIGO" :> CodMunIBGE) @@ (VALUE_POPULACAO :> Habitantes)
      [] OTHER -> << >>

\* The columns whose absence raises inside the try block.
NeededCols(filename) ==
    CASE filename = IDHM -> {"uname", "date"} \cup DroppedCols(filename)
      [] filename = MUNICIPIOS -> {"LEVEL"} \cup DroppedCols(filename)
      [] filename = PIB -> {"NIVNOME", VALUE_PIB} \cup DroppedCols(filename)
      [] OTHER -> {"NIVNOME"} \cup DroppedCols(filename)

\* The filter of each branch (df.query).
RowFilter(df, filename) ==
    IF filename = IDHM
    THEN LET date_filter == IF "date" \in df.cols /\ IsDatetimeColumn(df, "date")
                            THEN Timestamp(Days2010)
                            ELSE Text("2010-01-01")
             keep(row) == row["uname"] = Text("Municipality") /\ row["date"] = date_filter
         IN  [df EXCEPT !.rows = SelectSeq(df.rows, keep)]
    ELSE LET keep(row) == row[LevelCol(filename)] = Text("Municipios")
         IN  [df EXCEPT !.rows = SelectSeq(df.rows, keep)]

\* The normalized table, or None when the try block raised.
silver_transform(df, filename) ==
    IF ~(NeededCols(filename) \subseteq df.cols) THEN None
    ELSE LET dropped == Drop(RowFilter(df, filename), DroppedCols(filename))
             valued == IF filename = PIB
                       THEN RoundPIB(dropped)
                       ELSE dropped
             renamed == Rename(valued, Renaming(filename))
         IN  IF filename = POPULACAO THEN AstypePopulacao(renamed) ELSE renamed

----------------------------------------------------------------------------
\* gold_finish

\* df['CodMunIBGE'].astype(str): the key column becomes a string column.
\* A code keeps its digits: 1100015 becomes "1100015".
AsStr(df) == [df EXCEPT !.keydtype = "str"]

\* What merged_df.merge raises (pandas' ValueError), as a table: the codes of
\* the left table are numbers and those of the right one strings.  A table
\* without rows has no values to tell apart, and merges with any other.
MergeError == [cols |-> {}, keydtype |-> "ValueError", rows |-> <<>>]

MergeRaises(left, right) ==
    left.keydtype # right.keydtype /\ left.rows # <<>> /\ right.rows # <<>>

\* JoinRow keeping only the first right row of the key (a lookup).
JoinRowFirst(l, left, right) ==
    LET same(r) == r[CodMunIBGE] = l[CodMunIBGE]
        matches == SelectSeq(right.rows, same)
        cols == left.cols \cup right.cols
    IN  << [c \in cols |->
              IF c \in left.cols THEN l[c]
              ELSE IF matches = <<>> THEN NaN ELSE matches[1][c]] >>

\* JoinRow pairing the left row with every right row (no key condition).
JoinRowCross(l, left, right) ==
    LET cols == left.cols \cup right.cols
    IN  IF right.rows = <<>>
        THEN << [c \in cols |-> IF c \in left.cols THEN l[c] ELSE NaN] >>
        ELSE [j \in 1..Len(right.rows) |->
                [c \in cols |-> IF c \in left.cols THEN l[c] ELSE right.rows[j][c]]]

\* One left row joined with the right table: one row per right row of the
\* same key, in the right table's order; with none, the left row with NaN
\* in the right table's columns.
JoinRow(l, left, right) ==
    LET same(r) == r[CodMunIBGE] = l[CodMunIBGE]
        matches == SelectSeq(right.rows, same)
        cols == left.cols \cup right.cols
    IN  IF matches = <<>>
        THEN << [c \in cols |-> IF c \in left.cols THEN l[c] ELSE NaN] >>
        ELSE [j \in 1..Len(matches) |->
                [c \in cols |-> IF c \in left.cols THEN l[c] ELSE matches[j][c]]]

\* merged_df.merge(df, how='left', on='CodMunIBGE')
MergeLeft(left, right) ==
    IF MergeRaises(left, right) THEN MergeError
    ELSE [cols |-> left.cols \cup right.cols,
          keydtype |-> left.keydtype,
          rows |-> Flatten([j \in 1..Len(left.rows) |-> JoinRow(left.rows[j], left, right)])]

\* The loop of lines 120-125 over the tables dfs, the first the accumulator.
RECURSIVE MergeAll(_, _)
MergeAll(merged_df, dfs) ==
    IF dfs = <<>> \/ merged_df = MergeError THEN merged_df
    ELSE MergeAll(MergeLeft(merged_df, AsStr(Head(dfs))), Tail(dfs))

\* DropNa that drops nothing.
DropNaNone(df) == df

\* merged_df.dropna(): the rows without a NaN.
DropNa(df) ==
    LET complete(row) == \A c \in df.cols : row[c] # NaN
    IN  [df EXCEPT !.rows = SelectSeq(@, complete)]

\* merged_df.reindex(columns=order): the listed columns in that order; one
\* the table lacks is filled with NaN.
Reindex(df, order) ==
    [df EXCEPT !.cols = Range(order),
               !.rows = [j \in 1..Len(df.rows) |->
                            [c \in Range(order) |->
                                IF c \in df.cols THEN df.rows[j][c] ELSE NaN]]]

\* The codes have one length (seven digits in the data), so that their
\* order as strings is their order as numbers.
KeyLeq(r1, r2) == r1[CodMunIBGE][2] <= r2[CodMunIBGE][2]

RECURSIVE Insert(_, _)
Insert(row, sorted) ==
    IF sorted = <<>> THEN <<row>>
    ELSE IF KeyLeq(Head(sorted), row) THEN <<Head(sorted)>> \o Insert(row, Tail(sorted))
    ELSE <<row>> \o sorted

RECURSIVE SortRows(_)
SortRows(rows) ==
    IF rows = <<>> THEN <<>>
    ELSE Insert(rows[Len(rows)], SortRows(SubSeq(rows, 1, Len(rows) - 1)))

\* merged_df.sort_values(by='CodMunIBGE'); rows of one code keep their order.
SortValues(df) == [df EXCEPT !.rows = SortRows(@)]

\* a / b of two float cells.
Divide(a, b) ==
    IF a[1] # "num" \/ b[1] # "num" THEN NaN
    ELSE IF b[2] = 0 THEN (IF a[2] = 0 THEN NaN ELSE Inf)
    ELSE Frac(a[2] * b[3], a[3] * b[2])

\* WithCarga dividing the other way round.
WithCargaInverse(df) ==
    [df EXCEPT !.rows = [j \in 1..Len(df.rows) |->
                            [df.rows[j] EXCEPT
                                ![Carga] = Divide(df.rows[j][PIB2010], df.rows[j][Receitas])]]]

\* Line 144: the new column, row by row.
WithCarga(df) ==
    [df EXCEPT !.rows = [j \in 1..Len(df.rows) |->
                            [df.rows[j] EXCEPT
                                ![Carga] = Divide(df.rows[j][Receitas], df.rows[j][PIB2010])]]]

\* The table gold_finish saves as CleanData.csv (lines 120-144), or
\* MergeError when a merge raised.
MergedTable(silver_dataframes) ==
    LET merged_df == MergeAll(Head(silver_dataframes), Tail(silver_dataframes))
    IN  IF merged_df = MergeError THEN MergeError
        ELSE WithCarga(SortValues(Reindex(DropNa(merged_df), column_order)))

----------------------------------------------------------------------------
\* main and data_process

Init ==
    /\ pc = "fetch"
    /\ idx = 1
    /\ bronze_df = None
    /\ silver = [f \in Range(Sources) |-> None]
    /\ join_list = <<>>
    /\ log = <<>>
    /\ gold = None
    /\ analysis = {}
    /\ files = {}
    /\ gold_calls = 0

\* data_process returns: main goes on to the next source, or to line 271.
Return ==
    /\ idx' = idx + 1
    /\ pc' = IF idx = NSources THEN "merge" ELSE "fetch"
    /\ bronze_df' = None

\* BronzeFetchFails ending the loop at the failed source.
BronzeFetchAborts ==
    /\ pc = "fetch"
    /\ log' = Append(log, <<"fetching", Sources[idx]>>)
    /\ idx' = idx + 1
    /\ pc' = "merge"
    /\ bronze_df' = None
    /\ UNCHANGED <<silver, join_list, gold, analysis, files, gold_calls>>

\* bronze_fetch raises inside its try block (the provider, the conversion or
\* saving_step): the error is logged, None is returned and data_process
\* returns.
BronzeFetchFails ==
    /\ pc = "fetch"
    /\ log' = Append(log, <<"fetching", Sources[idx]>>)
    /\ Return
    /\ UNCHANGED <<silver, join_list, gold, analysis, files, gold_calls>>

\* bronze_fetch returns the raw table and has saved it.
BronzeFetch ==
    /\ pc = "fetch"
    /\ \E data \in Provider(Sources[idx]) :
          bronze_df' = bronze_fetch(Sources[idx], data)
    /\ files' = files \cup {<<"Bronze", Sources[idx]>>}
    /\ pc' = "transform"
    /\ UNCHANGED <<idx, silver, join_list, log, gold, analysis, gold_calls>>

\* SilverTransform putting the table at the head of join_list.
SilverTransformPrepends ==
    /\ pc = "transform"
    /\ LET filename == Sources[idx]
           silver_df == silver_transform(bronze_df, filename)
       IN  IF silver_df = None
           THEN /\ log' = Append(log, <<"transforming", filename>>)
                /\ UNCHANGED <<silver, join_list, files>>
           ELSE /\ silver' = [silver EXCEPT ![filename] = silver_df]
                /\ join_list' = <<filename>> \o join_list
                /\ files' = files \cup {<<"Silver", filename>>}
                /\ UNCHANGED log
    /\ Return
    /\ UNCHANGED <<gold, analysis, gold_calls>>

\* Lines 219-224: silver_transform on the raw table; its table is saved and
\* appended to join_list, its failure logged.
SilverTransform ==
    /\ pc = "transform"
    /\ LET filename == Sources[idx]
           silver_df == silver_transform(bronze_df, filename)
       IN  IF silver_df = None
           THEN /\ log' = Append(log, <<"transforming", filename>>)
                /\ UNCHANGED <<silver, join_list, files>>
           ELSE /\ silver' = [silver EXCEPT ![filename] = silver_df]
                /\ join_list' = Append(join_list, filename)
                /\ files' = files \cup {<<"Silver", filename>>}
                /\ UNCHANGED log
    /\ Return
    /\ UNCHANGED <<gold, analysis, gold_calls>>

\* The tables join_list refers to.
Deref(list) == [j \in 1..Len(list) |-> silver[list[j]]]

\* The position in the list of the table whose merge raised (0: none did).
RaisedAt(list) ==
    LET raised(j) == MergeAll(silver[list[1]], SubSeq(Deref(list), 2, j)) = MergeError
    IN  IF \E j \in 2..Len(list) : raised(j)
        THEN CHOOSE j \in 2..Len(list) : raised(j) /\ \A k \in 2..(j - 1) : ~raised(k)
        ELSE 0

\* Line 122 assigns to the DataFrame objects of the list themselves: every
\* table after the first, up to the one whose merge raised.
Coerced(list) ==
    [f \in Range(Sources) |->
        IF \E j \in 2..Len(list) : list[j] = f /\ (RaisedAt(list) # 0 => j <= RaisedAt(list))
        THEN AsStr(silver[f]) ELSE silver[f]]

\* Lines 271-276 with a non-empty join_list: gold_finish merges, saves
\* CleanData.csv, writes the descriptive statistics and draws the charts
\* (seaborn and matplotlib, which are outside the model).  A merge that
\* raises ends main.
GoldFinish ==
    /\ pc = "merge"
    /\ join_list # <<>>
    /\ gold_calls' = gold_calls + 1
    /\ LET merged_df == MergedTable(Deref(join_list))
       IN  IF merged_df = MergeError
           THEN /\ pc' = "crashed"
                /\ UNCHANGED <<gold, analysis, files>>
           ELSE /\ pc' = "done"
                /\ gold' = merged_df
                /\ files' = files \cup {<<"Gold", "CleanData.csv">>}
                /\ analysis' = {"describe", "plots"}
    /\ silver' = Coerced(join_list)
    /\ UNCHANGED <<idx, bronze_df, join_list, log>>

\* Lines 271-276 with an empty join_list: gold_finish is not called, and
\* line 276 reads clean_data, which was never assigned (UnboundLocalError).
NoMerge ==
    /\ pc = "merge"
    /\ join_list = <<>>
    /\ pc' = "crashed"
    /\ UNCHANGED <<idx, bronze_df, silver, join_list, log, gold, analysis, files, gold_calls>>

Next == BronzeFetchFails \/ BronzeFetch \/ SilverTransform \/ GoldFinish \/ NoMerge

Spec == Init /\ [][Next]_vars

----------------------------------------------------------------------------
\* gold_finish on its own: called with any list of at most MaxTables
\* normalized tables of different sources, in any order.

\* The normalized tables of a source: silver_transform of its municipal rows.
NormalizedTables(filename) ==
    {silver_transform(bronze_fetch(filename, data), filename) :
        data \in ProviderTables(filename, MaxRows, {MunicipalLevel(filename)},
                                {RawCols(filename)}, {"float64"})}

Injective(list) == \A j, k \in 1..Len(list) : list[j] = list[k] => j = k

SourceLists == {list \in SeqsUpTo(Range(Sources), MaxTables) : list # <<>> /\ Injective(list)}

\* The tables of a source in a call with the sources of list.
Given(filename, list) ==
    IF filename \in Range(list) THEN NormalizedTables(filename) ELSE {None}

InitGold ==
    /\ pc = "merge"
    /\ idx = NSources + 1
    /\ bronze_df = None
    /\ join_list \in SourceLists
    /\ \E t1 \in Given(PIB, join_list), t2 \in Given(ARRECADACAO, join_list),
          t3 \in Given(POPULACAO, join_list), t4 \in Given(MUNICIPIOS, join_list),
          t5 \in Given(IDHM, join_list) :
          silver = (PIB :> t1) @@ (ARRECADACAO :> t2) @@ (POPULACAO :> t3)
                   @@ (MUNICIPIOS :> t4) @@ (IDHM :> t5)
    /\ log = <<>>
    /\ gold = None
    /\ analysis = {}
    /\ files = {}
    /\ gold_calls = 0

NextGold == GoldFinish

SpecGold == InitGold /\ [][NextGold]_vars

----------------------------------------------------------------------------
\* Properties

KeySet(df) == {df.rows[j][CodMunIBGE][2] : j \in 1..Len(df.rows)}

UniqueKeys(df) ==
    \A j, k \in 1..Len(df.rows) :
        df.rows[j][CodMunIBGE] = df.rows[k][CodMunIBGE] => j = k

\* A source failed when logging.error was called for it.
Failed(filename) ==
    <<"fetching", filename>> \in Range(log) \/ <<"transforming", filename>> \in Range(log)

Succeeded(filename) == ~Failed(filename)

\* The rearrangements of a list.
Perms(list) ==
    {q \in [1..Len(list) -> Range(list)] : \A j, k \in 1..Len(list) : q[j] = q[k] => j = k}

\* The rows of a table with the number of times each occurs.
RowBag(df) ==
    [r \in Range(df.rows) |-> Cardinality({j \in 1..Len(df.rows) : df.rows[j] = r})]

\* The join of the tables of join_list before the null-drop.
Joined == MergeAll(Head(Deref(join_list)), Tail(Deref(join_list)))

\* C1: no row of the table gold_finish saves has a missing value in any of
\* the seven canonical columns, also when one of the sources is missing.
C1_NoMissingValue ==
    gold # None =>
        \A j \in 1..Len(gold.rows) : \A c \in Range(column_order) : gold.rows[j][c] # NaN

\* C2: every code of the saved table is a code of every input table.
C2_KeysInEveryInput ==
    pc = "done" =>
        \A k \in KeySet(gold) : \A f \in Range(join_list) : k \in KeySet(silver[f])

\* C2 happens: three tables were merged, a code of the first is missing from
\* another, and a row survived.
C2_Witness ==
    /\ pc = "done"
    /\ Len(join_list) = 3
    /\ gold.rows # <<>>
    /\ \E f \in Range(join_list) : KeySet(silver[join_list[1]]) \ KeySet(silver[f]) # {}

\* The fiscal burden c of a row with revenue r and GDP p: c * p = r for a
\* GDP other than zero, inf for a revenue over a GDP of zero, else NaN.
IsQuotient(c, r, p) ==
    IF r[1] = "num" /\ p[1] = "num" /\ p[2] # 0
    THEN c[1] = "num" /\ c[3] > 0 /\ c[2] * (r[3] * p[2]) = c[3] * (r[2] * p[3])
    ELSE IF r[1] = "num" /\ p[1] = "num" /\ r[2] # 0
    THEN c = Inf
    ELSE c = NaN

\* C3: in every row of the saved table the fiscal burden is that row's
\* revenue divided by that row's GDP.
C3_CargaIsRowQuotient ==
    pc = "done" =>
        \A j \in 1..Len(gold.rows) :
            IsQuotient(gold.rows[j][Carga], gold.rows[j][Receitas], gold.rows[j][PIB2010])

\* C3 happens: two rows of different codes were saved, one with a finite
\* quotient other than zero.
C3_Witness ==
    /\ pc = "done"
    /\ Cardinality(KeySet(gold)) = 2
    /\ \E j \in 1..Len(gold.rows) : gold.rows[j][Carga][1] = "num" /\ gold.rows[j][Carga][2] > 0

\* C4: once the loop over the sources has ended every source was processed,
\* and join_list refers to the normalized tables of exactly the sources that
\* did not fail, in the configured order.
C4_FailedSourcesSkipped ==
    pc \in {"merge", "done", "crashed"} =>
        /\ idx = NSources + 1
        /\ join_list = SelectSeq(Sources, Succeeded)
        /\ \A f \in Range(Sources) :
              /\ Succeeded(f) => silver[f] # None /\ <<"Silver", f>> \in files
              /\ Failed(f) => silver[f] = None

\* C4 happens: a fetch and a normalization failed, later sources were
\* merged all the same.
C4_Witness ==
    /\ pc = "done"
    /\ <<"fetching", PIB>> \in Range(log)
    /\ <<"transforming", POPULACAO>> \in Range(log)
    /\ join_list = <<ARRECADACAO, MUNICIPIOS, IDHM>>

\* The structural problems of a merge: no table, no row left by the
\* null-drop, or a join without the revenue or the GDP column.
MergeFailure ==
    \/ join_list = <<>>
    \/ /\ join_list # <<>>
       /\ Joined # MergeError
       /\ \/ DropNa(Joined).rows = <<>>
          \/ ~({Receitas, PIB2010} \subseteq Joined.cols)

\* C5: after a structural problem of the merge no merged table is saved and
\* the descriptive statistics and the charts are not made.
C5_MergeFailureSavesNothing ==
    (pc \in {"done", "crashed"} /\ MergeFailure) => (gold = None /\ analysis = {})

\* What gold_finish does with a list: it raises, or it saves these rows.
SameOutcome(list1, list2) ==
    LET m1 == MergedTable(Deref(list1))
        m2 == MergedTable(Deref(list2))
    IN  IF m1 = MergeError \/ m2 = MergeError THEN m1 = m2 ELSE RowBag(m1) = RowBag(m2)

\* C6: gold_finish does the same with every rearrangement of its list.
C6_OrderInvariant ==
    [][gold_calls' > gold_calls =>
          \A p \in Perms(join_list) : SameOutcome(p, join_list)]_vars

AllStr(list) == \A j \in 1..Len(list) : silver[list[j]].keydtype = "str"

\* C6 as amended: for tables whose key columns are all strings, every
\* rearrangement of the list gives the rows gold_finish saves.
C6_OrderInvariantForStringKeys ==
    [][(gold_calls' > gold_calls /\ AllStr(join_list)) =>
          /\ pc' = "done"
          /\ \A p \in Perms(join_list) :
                /\ MergedTable(Deref(p)) # MergeError
                /\ RowBag(MergedTable(Deref(p))) = RowBag(gold')]_vars

\* C6 happens: three tables, one with a repeated code, were merged and rows
\* survived.
C6_Witness ==
    /\ pc = "done"
    /\ Len(join_list) = 3
    /\ Len(gold.rows) >= 2
    /\ \E f \in Range(join_list) : ~UniqueKeys(silver[f])
    /\ KeySet(silver[join_list[1]]) # KeySet(silver[join_list[2]])

\* C7: no two rows of the saved table have the same code.
C7_UniqueCodes == pc = "done" => UniqueKeys(gold)

\* C7 as amended: when no input table repeats a code, no two rows of the
\* saved table have the same code.
C7_UniqueCodesForUniqueInputs ==
    (pc = "done" /\ \A f \in Range(join_list) : UniqueKeys(silver[f])) => UniqueKeys(gold)

\* C7 happens: tables without repeated codes were merged into two rows.
C7_Witness ==
    /\ pc = "done"
    /\ Len(join_list) >= 2
    /\ \A f \in Range(join_list) : UniqueKeys(silver[f])
    /\ Len(gold.rows) = 2

\* The municipal rows of the raw GDP table, which silver_transform keeps.
MunicipalRows(df) ==
    LET municipal(row) == row["NIVNOME"] = Text("Municipios") IN SelectSeq(df.rows, municipal)

\* The step that normalizes the GDP table.
NormalizesPIB == pc = "transform" /\ Sources[idx] = PIB /\ silver'[PIB] # None

\* C8: a raw GDP of 12.3456 (thousands) becomes 12345.6 in 'PIB 2010 (R$)'.
C8_RawTimes1000 ==
    [][NormalizesPIB =>
          \A j \in 1..Len(MunicipalRows(bronze_df)) :
              MunicipalRows(bronze_df)[j][VALUE_PIB] = Num(123456, 10000)
                  => silver'[PIB].rows[j][PIB2010] = Num(123456, 10)]_vars

\* C8 as amended: every municipal raw GDP x becomes the whole number nearest
\* to 1000 x (x rounded to three decimals, times 1000), so that 12.3456
\* becomes 12346.
C8_Round3ThenTimes1000 ==
    [][NormalizesPIB =>
          /\ Len(silver'[PIB].rows) = Len(MunicipalRows(bronze_df))
          /\ \A j \in 1..Len(MunicipalRows(bronze_df)) :
                LET raw == MunicipalRows(bronze_df)[j]
                    x == raw[VALUE_PIB]
                    y == silver'[PIB].rows[j][PIB2010]
                    diff == y[2] * x[3] - 1000 * x[2]
                IN  /\ silver'[PIB].rows[j][CodMunIBGE] = raw["TERCODIGO"]
                    /\ y[1] = "num" /\ y[3] = 1
                    /\ 2 * diff <= x[3] /\ 2 * diff >= 0 - x[3]
                    /\ x = Num(123456, 10000) => y = Num(12346, 1)]_vars

\* C8 happens: the GDP table was normalized and holds 12346.
C8_Witness ==
    /\ silver[PIB] # None
    /\ \E j \in 1..Len(silver[PIB].rows) : silver[PIB].rows[j][PIB2010] = Num(12346, 1)

\* C9: whatever sources fail, main logs each failure and ends without an
\* uncaught exception.
C9_NoUncaughtException ==
    /\ pc # "crashed"
    /\ \A j \in 1..(idx - 1) : silver[Sources[j]] = None => Failed(Sources[j])

\* C10: join_list changes only by the append of the table just normalized,
\* and gold_finish is called at most once, after the last source.
C10_AppendOnlyThenOneMerge ==
    [][/\ join_list' # join_list =>
             /\ pc = "transform"
             /\ join_list' = Append(join_list, Sources[idx])
             /\ silver'[Sources[idx]] # None
       /\ gold_calls' <= 1
       /\ gold_calls' # gold_calls =>
             /\ idx = NSources + 1
             /\ gold_calls' = gold_calls + 1
             /\ join_list' = join_list]_vars

\* C10 happens: all five tables were appended in turn and merged once.
C10_Witness ==
    /\ pc = "done"
    /\ gold_calls = 1
    /\ join_list = Sources

====
